---------------------------- MODULE Spec2Model ----------------------------
(***************************************************************************)
(* A model of the three Bostonia Python services:                          *)
(*   - content-moderation  (src/services/content-moderation/src/routes)    *)
(*   - ai-orchestration    (src/services/ai-orchestration/src/routes)      *)
(*   - memory-service      (src/services/memory-service/src/routes)        *)
(*                                                                         *)
(* Conventions.  Scores, thresholds and importances are floats in the      *)
(* code; here they are integers in hundredths (0.6 is 60).  A text that is *)
(* matched against the blocklist is a sequence of words (the text split at *)
(* single spaces); a text that is only concatenated is a sequence of       *)
(* characters.  Python's None is the empty tuple where a list is expected. *)
(***************************************************************************)
EXTENDS Integers, Sequences, FiniteSets, TLC

VARIABLES
    \* content-moderation
    claude_client,      \* moderation.py:16  TRUE iff the Anthropic client exists
    mod_request,        \* the ModerationRequest being served, with the classifier's behaviour
    mod_response,       \* the ModerationResponse returned for it
    ai_checks,          \* calls of check_ai_moderation made for the request
    llm_calls,          \* calls of claude_client.messages.create made for the request
    batch_request,      \* the body of the POST /moderate/batch being served
    batch_response,     \* the results returned for it
    \* ai-orchestration
    client,             \* chat.py:18  TRUE iff the Anthropic client exists
    chat_request,       \* the request being served, with its collaborators' behaviour
    chat_response,      \* the HTTP status and the content returned
    chat_calls,         \* the collaborators called for the request, in order
    stream_pc,          \* where generate() of chat_stream stands
    provider,           \* what the provider's stream did: "open", "raised", "completed"
    full_content,       \* generate(): the text accumulated so far
    events,             \* the server-sent events emitted so far
    \* memory-service
    redis_client,       \* memory.py:20-23  TRUE iff the Redis client exists
    openai_client,      \* memory.py:25-26  TRUE iff the embeddings client exists
    memory,             \* Redis: the live "memory:<id>" keys, id -> record and time to live
    memory_index,       \* Redis: the live "memory_index:<conv>" keys, conv -> set and time to live
    mem_request,        \* the request served last
    mem_response,       \* and the response to it
    index_before,       \* history: what the request found (see Found)
    cleared,            \* history: the conversations cleared with no store_memory
                        \* since, each with the count its clear_memories reported
    \* memory-service, command by command
    in_flight,          \* the store_memory and clear_memories calls in flight: for
                        \* each task, the await it stands at and its locals
    interleaved,        \* history: a call began, or a key expired, while a call
                        \* was in flight
    started,            \* calls begun so far
    clock               \* expiry steps taken so far

modVars == <<claude_client, mod_request, mod_response, ai_checks, llm_calls,
             batch_request, batch_response>>
chatVars == <<client, chat_request, chat_response, chat_calls, stream_pc, provider,
              full_content, events>>
stepVars == <<in_flight, interleaved, started, clock>>
memVars == <<redis_client, openai_client, memory, memory_index, mem_request, mem_response,
             index_before, cleared, stepVars>>

-----------------------------------------------------------------------------
(* Small helpers *)

Max(a, b) == IF a >= b THEN a ELSE b
Min(a, b) == IF a <= b THEN a ELSE b

Range(s) == {s[i] : i \in DOMAIN s}

\* All sequences over S of length 0..n
SeqsUpTo(S, n) == UNION {[1..k -> S] : k \in 0..n}


-----------------------------------------------------------------------------
(***************************************************************************)
(* CONTENT MODERATION  (content-moderation/src/routes/moderation.py)       *)
(***************************************************************************)

\* Bounds of the moderation inputs
MaxWords == 3           \* longest content enumerated word by word
MaxAiFlags == 1         \* most flags in one classifier reply

\* config.py: the severity thresholds, in hundredths
severity_threshold_low == 30
severity_threshold_medium == 60
severity_threshold_high == 80

\* The words contents are made of.  "Kill" is there for lower().
Vocabulary == {"kill", "Kill", "someone", "suicide", "hello"}

\* Longer contents, added to the enumerated ones
ExampleContents ==
    { <<"hello", "world">>,
      <<"how", "to", "make", "bomb">>,
      <<"HOW", "to", "build", "weapon">>,
      <<"how", "to", "make", "a", "bomb">>,
      <<"self", "harm">>,
      <<"end", "my", "life", "hello">>,
      <<"what's", "your", "credit", "card">>,
      <<"whats", "your", "ssn">>,
      <<"skill", "someone">> }

Contents == SeqsUpTo(Vocabulary, MaxWords) \cup ExampleContents

FilterLevels == {"strict", "moderate", "relaxed", "Strict", "lenient"}

\* str.lower() on one word
LowerWord(w) ==
    CASE w = "Kill" -> "kill"
      [] w = "HOW" -> "how"
      [] OTHER -> w

\* content.lower()
Lower(content) == [i \in DOMAIN content |-> LowerWord(content[i])]

\* words[i], or "" past the end
At(words, i) == IF i \in DOMAIN words THEN words[i] ELSE ""

\* The four BLOCKED_PATTERNS, word by word: \b and \s+ make every alternative
\* a run of whole words.  PatternMatches is the match that respects case.
PatternMatches(p, words) ==
    \E i \in DOMAIN words :
        CASE p = 1 ->
               /\ At(words, i) \in {"kill", "murder", "harm", "attack", "hurt"}
               /\ At(words, i + 1) \in {"yourself", "myself", "people", "someone"}
          [] p = 2 ->
               \/ At(words, i) \in {"suicide", "selfharm", "self-harm"}
               \/ At(words, i) = "self" /\ At(words, i + 1) = "harm"
               \/ /\ At(words, i) = "end"
                  /\ At(words, i + 1) \in {"my", "your"}
                  /\ At(words, i + 2) = "life"
          [] p = 3 ->
               /\ At(words, i) = "how"
               /\ At(words, i + 1) = "to"
               /\ At(words, i + 2) \in {"make", "create", "build"}
               /\ At(words, i + 3) \in {"bomb", "weapon", "drug"}
          [] p = 4 ->
               /\ At(words, i) \in {"whats", "what's"}
               /\ At(words, i + 1) = "your"
               /\ \/ At(words, i + 2) \in {"address", "phone", "ssn"}
                  \/ At(words, i + 2) = "credit" /\ At(words, i + 3) = "card"
          [] OTHER -> FALSE

BLOCKED_PATTERNS == <<1, 2, 3, 4>>

\* re.search(pattern, text, re.IGNORECASE)
re_search(p, text) == PatternMatches(p, Lower(text))

KeywordFlag == [category |-> "keyword_match", severity |-> "high"]

\* check_keyword_filters: one high flag per pattern that matches, in order
check_keyword_filters(content) ==
    LET content_lower == Lower(content)
        hits == SelectSeq(BLOCKED_PATTERNS, LAMBDA p : re_search(p, content_lower))
    IN  [i \in DOMAIN hits |-> KeywordFlag]

\* What the classifier's reply can be.  A flag of the reply has a category and
\* maybe a severity; the reply maybe has a score.
Absent == "<absent>"
RawFlags == [category : {"violence"}, severity : {"low", "high", Absent}]
RawScores == {-10, 0, 29, 30, 59, 60, 79, 80, 100, 150}

ClassifierReplies ==
    {[kind |-> k, flags |-> <<>>, has_score |-> FALSE, score |-> 0] :
        k \in {"raises", "empty_content", "not_json", "not_object", "bad_flags",
               "bad_score"}}
    \cup [kind : {"json"}, flags : SeqsUpTo(RawFlags, MaxAiFlags),
          has_score : {TRUE}, score : RawScores]
    \cup [kind : {"json"}, flags : {<<>>}, has_score : {FALSE}, score : {0}]

\* moderation.py:112-119: the flags of a parsed reply, severity defaulting to low
ParsedFlags(raw) ==
    [i \in DOMAIN raw |->
        [category |-> raw[i].category,
         severity |-> IF raw[i].severity = Absent THEN "low" ELSE raw[i].severity]]

\* check_ai_moderation: (flags, score), the calls of the LLM it made, and
\* whether an exception escapes it
check_ai_moderation_inner_except_only(configured, reply) ==
    IF ~configured
    THEN [raised |-> FALSE, flags |-> <<>>, score |-> 0, llm_calls |-> 0]
    ELSE IF reply.kind = "json"
    THEN [raised |-> FALSE, flags |-> ParsedFlags(reply.flags),
          score |-> IF reply.has_score THEN reply.score ELSE 0,
          llm_calls |-> 1]
    ELSE [raised |-> reply.kind \notin {"not_json", "empty_content"},
          flags |-> <<>>, score |-> 0, llm_calls |-> 1]

check_ai_moderation(configured, reply) ==
    IF ~configured
    THEN [raised |-> FALSE, flags |-> <<>>, score |-> 0, llm_calls |-> 0]
    ELSE IF reply.kind = "json"
    THEN [raised |-> FALSE, flags |-> ParsedFlags(reply.flags),
          score |-> IF reply.has_score THEN reply.score ELSE 0,
          llm_calls |-> 1]
    ELSE \* "not_json": json.JSONDecodeError, caught at line 122: [], 0.0
         \* "raises" (the API call), "not_object" (result.get), "bad_flags"
         \* (iterating the flags, f.get, the validation of ModerationFlag),
         \* "bad_score" (float()): caught at line 126: [], 0.0
         \* "empty_content": read as "{}": no flags, score 0
         [raised |-> FALSE, flags |-> <<>>, score |-> 0, llm_calls |-> 1]

AnyHigh(flags) == \E i \in DOMAIN flags : flags[i].severity = "high"

\* moderation.py:161-166: thresholds.get(filter_level, medium)
threshold_default_low(filter_level) ==
    CASE filter_level = "strict" -> severity_threshold_low
      [] filter_level = "moderate" -> severity_threshold_medium
      [] filter_level = "relaxed" -> severity_threshold_high
      [] OTHER -> severity_threshold_low

threshold(filter_level) ==
    CASE filter_level = "strict" -> severity_threshold_low
      [] filter_level = "moderate" -> severity_threshold_medium
      [] filter_level = "relaxed" -> severity_threshold_high
      [] OTHER -> severity_threshold_medium

\* What the caller gets when an exception escapes a handler: status 500 and
\* no ModerationResponse
Raised500 ==
    [status |-> 500, passed |-> FALSE, flags |-> <<>>, score |-> 0,
     ai_checks |-> 0, llm_calls |-> 0]

\* moderate_content: the response and the calls made, for a request and a
\* classifier behaviour
moderate_content_no_short_circuit(configured, content, filter_level, reply) ==
    LET keyword_flags == check_keyword_filters(content)
        ai == check_ai_moderation(configured, reply)
        all_flags == keyword_flags \o ai.flags
        final_score == IF keyword_flags # <<>> THEN Max(ai.score, 50) ELSE ai.score
        passed == final_score < threshold(filter_level) /\ ~AnyHigh(all_flags)
    IN  IF ai.raised
        THEN [Raised500 EXCEPT !.ai_checks = 1, !.llm_calls = ai.llm_calls]
        ELSE [status |-> 200, passed |-> passed, flags |-> all_flags,
              score |-> final_score, ai_checks |-> 1, llm_calls |-> ai.llm_calls]

moderate_content(configured, content, filter_level, reply) ==
    LET keyword_flags == check_keyword_filters(content)
    IN  IF AnyHigh(keyword_flags)
        THEN [status |-> 200, passed |-> FALSE, flags |-> keyword_flags, score |-> 100,
              ai_checks |-> 0, llm_calls |-> 0]
        ELSE LET ai == check_ai_moderation(configured, reply)
                 all_flags == keyword_flags \o ai.flags
                 final_score == IF keyword_flags # <<>> THEN Max(ai.score, 50)
                                ELSE ai.score
                 passed == final_score < threshold(filter_level) /\ ~AnyHigh(all_flags)
             IN  IF ai.raised
                 THEN [Raised500 EXCEPT !.ai_checks = 1, !.llm_calls = ai.llm_calls]
                 ELSE [status |-> 200, passed |-> passed, flags |-> all_flags,
                       score |-> final_score, ai_checks |-> 1,
                       llm_calls |-> ai.llm_calls]

\* The reply slot of a request served without a classifier client
NoReply == [kind |-> "none", flags |-> <<>>, has_score |-> FALSE, score |-> 0]

NoModRequest == [op |-> "none", content |-> <<>>, filter_level |-> "", reply |-> NoReply]
NoModResponse == [status |-> 0, passed |-> TRUE, flags |-> <<>>, score |-> 0]

NoBatchRequest == [op |-> "none", contents |-> <<>>, replies |-> <<>>]
NoBatchResponse == [status |-> 0, results |-> <<>>]

InitMod ==
    /\ claude_client \in BOOLEAN
    /\ mod_request = NoModRequest
    /\ mod_response = NoModResponse
    /\ ai_checks = 0
    /\ llm_calls = 0
    /\ batch_request = NoBatchRequest
    /\ batch_response = NoBatchResponse

\* POST /moderate.  The service keeps nothing from one request to the next,
\* so a behaviour is one request.
ModerateContent ==
    /\ mod_request.op = "none"
    /\ batch_request.op = "none"
    /\ \E content \in Contents, filter_level \in FilterLevels,
       reply \in (IF claude_client THEN ClassifierReplies ELSE {NoReply}) :
        LET r == moderate_content(claude_client, content, filter_level, reply)
        IN  /\ mod_request' = [op |-> "moderate", content |-> content,
                               filter_level |-> filter_level, reply |-> reply]
            /\ mod_response' = [status |-> r.status, passed |-> r.passed,
                                flags |-> r.flags, score |-> r.score]
            /\ ai_checks' = r.ai_checks
            /\ llm_calls' = r.llm_calls
    /\ UNCHANGED <<claude_client, batch_request, batch_response, chatVars, memVars>>

\* moderation.py:185: contents[:10]
BATCH_LIMIT == 10

MaxBatch == 11          \* longest batch body

\* The items of a batch body: a content, and what the classifier replies when
\* it is asked about that item
BatchContents ==
    { <<"hello", "world">>,
      <<"how", "to", "make", "a", "bomb">>,
      <<"how", "to", "make", "bomb">>,
      <<"Kill", "someone">> }

BatchReplies ==
    {[kind |-> k, flags |-> <<>>, has_score |-> FALSE, score |-> 0] :
        k \in {"raises", "not_json", "bad_score"}}
    \cup [kind : {"json"}, flags : {<<>>}, has_score : {TRUE}, score : {0, 59, 60, 150}]
    \cup {[kind |-> "json", flags |-> <<[category |-> "violence", severity |-> "high"]>>,
           has_score |-> TRUE, score |-> 0]}

BatchItems(configured) ==
    [content : BatchContents,
     reply : IF configured THEN BatchReplies ELSE {NoReply}]

\* The list of n items that repeats seed
Cycle(seed, n) == [i \in 1..n |-> seed[((i - 1) % Len(seed)) + 1]]

\* The bodies enumerated: every length up to MaxBatch, two items taking turns
BatchLengths == 0..MaxBatch

\* moderation.py:186-200: one turn of the loop of moderate_batch
batch_item_as_moderate(configured, content, reply) ==
    LET r == moderate_content(configured, content, "moderate", reply)
    IN  [raised |-> r.status # 200, llm_calls |-> r.llm_calls, ai_checks |-> r.ai_checks,
         result |-> [passed |-> r.passed, flags |-> r.flags, score |-> r.score]]

batch_item(configured, content, reply) ==
    LET keyword_flags == check_keyword_filters(content)
        ai == check_ai_moderation(configured, reply)
        all_flags == keyword_flags \o ai.flags
        passed == ai.score < severity_threshold_medium /\ ~AnyHigh(all_flags)
    IN  [raised |-> ai.raised, llm_calls |-> ai.llm_calls, ai_checks |-> 1,
         result |-> [passed |-> passed, flags |-> all_flags, score |-> ai.score]]

\* The loop of moderate_batch over the contents it is given, item by item;
\* acc is the response so far.  An exception ends the loop and the request.
RECURSIVE batch_loop(_, _, _, _)
batch_loop(configured, contents, replies, acc) ==
    IF contents = <<>> \/ acc.status # 200
    THEN acc
    ELSE LET it == batch_item(configured, Head(contents), Head(replies))
         IN  batch_loop(configured, Tail(contents), Tail(replies),
                 [status |-> IF it.raised THEN 500 ELSE 200,
                  results |-> IF it.raised THEN <<>> ELSE Append(acc.results, it.result),
                  ai_checks |-> acc.ai_checks + it.ai_checks,
                  llm_calls |-> acc.llm_calls + it.llm_calls])

\* moderate_batch: the response and the calls made, for a body and the
\* classifier's behaviour on each item of it
moderate_batch_unlimited(configured, contents, replies) ==
    batch_loop(configured, contents, replies,
               [status |-> 200, results |-> <<>>, ai_checks |-> 0, llm_calls |-> 0])

moderate_batch(configured, contents, replies) ==
    LET n == Min(Len(contents), BATCH_LIMIT)
    IN  batch_loop(configured, SubSeq(contents, 1, n), SubSeq(replies, 1, n),
                   [status |-> 200, results |-> <<>>, ai_checks |-> 0, llm_calls |-> 0])

\* POST /moderate/batch
ModerateBatch ==
    /\ mod_request.op = "none"
    /\ batch_request.op = "none"
    /\ \E first \in BatchItems(claude_client), second \in BatchItems(claude_client),
          n \in BatchLengths :
        LET body == Cycle(<<first, second>>, n)
            contents == [i \in DOMAIN body |-> body[i].content]
            replies == [i \in DOMAIN body |-> body[i].reply]
            r == moderate_batch(claude_client, contents, replies)
        IN  /\ batch_request' = [op |-> "batch", contents |-> contents,
                                 replies |-> replies]
            /\ batch_response' = [status |-> r.status, results |-> r.results]
            /\ ai_checks' = r.ai_checks
            /\ llm_calls' = r.llm_calls
    /\ UNCHANGED <<claude_client, mod_request, mod_response, chatVars, memVars>>


-----------------------------------------------------------------------------
(***************************************************************************)
(* CHAT ORCHESTRATION  (ai-orchestration/src/routes/chat.py)               *)
(***************************************************************************)

MaxChunks == 3          \* most text chunks the provider streams

REFUSAL == "I apologize, but I cannot provide that response."

\* How the moderation service answers one POST /api/moderate
ModerationOutcomes ==
    {"network_error",   \* httpx.RequestError
     "non_200",         \* an answer with another status
     "bad_json",        \* status 200, a body that is not JSON
     "no_data",         \* status 200, no "data" key
     "no_passed",       \* status 200, data without a "passed" key
     "passed",          \* data.passed = true
     "blocked"}         \* data.passed = false

\* How the chat-service answers the two GETs of get_conversation_context
ConversationOutcomes ==
    {"network_error", "non_200", "bad_json", "not_success",
     "messages_network_error", "messages_bad_json", "ok"}

\* How the memory service answers POST /api/memory/retrieve
MemoryOutcomes == {"network_error", "non_200", "bad_json", "empty", "found"}
FoundMemories == <<"likes tea">>

\* What client.messages.create does
GeneratedTexts == {"Hello!", "something unsafe", REFUSAL}
LlmOutcomes ==
    {[kind |-> "raises", text |-> ""], [kind |-> "empty_content", text |-> ""]}
    \cup [kind : {"text"}, text : GeneratedTexts]
NoLlm == [kind |-> "none", text |-> ""]

\* check_moderation: the verdict dict, or the exception that escapes it
check_moderation_fail_closed(outcome) ==
    CASE outcome = "network_error" -> [raised |-> FALSE, has_passed |-> TRUE, passed |-> FALSE]
      [] outcome = "non_200" -> [raised |-> FALSE, has_passed |-> TRUE, passed |-> TRUE]
      [] outcome = "bad_json" -> [raised |-> TRUE, has_passed |-> FALSE, passed |-> FALSE]
      [] outcome = "no_data" -> [raised |-> FALSE, has_passed |-> TRUE, passed |-> TRUE]
      [] outcome = "no_passed" -> [raised |-> FALSE, has_passed |-> FALSE, passed |-> FALSE]
      [] outcome = "passed" -> [raised |-> FALSE, has_passed |-> TRUE, passed |-> TRUE]
      [] outcome = "blocked" -> [raised |-> FALSE, has_passed |-> TRUE, passed |-> FALSE]

check_moderation(outcome) ==
    CASE outcome = "network_error" -> [raised |-> FALSE, has_passed |-> TRUE, passed |-> TRUE]
      [] outcome = "non_200" -> [raised |-> FALSE, has_passed |-> TRUE, passed |-> TRUE]
      [] outcome = "bad_json" -> [raised |-> TRUE, has_passed |-> FALSE, passed |-> FALSE]
      [] outcome = "no_data" -> [raised |-> FALSE, has_passed |-> TRUE, passed |-> TRUE]
      [] outcome = "no_passed" -> [raised |-> FALSE, has_passed |-> FALSE, passed |-> FALSE]
      [] outcome = "passed" -> [raised |-> FALSE, has_passed |-> TRUE, passed |-> TRUE]
      [] outcome = "blocked" -> [raised |-> FALSE, has_passed |-> TRUE, passed |-> FALSE]

\* moderation.get("passed", True)
GetPassed(moderation) == IF moderation.has_passed THEN moderation.passed ELSE TRUE

\* get_conversation_context: 200 and the context, or the status of the
\* HTTPException (or of the exception that escapes), and the GETs it made
get_conversation_context(outcome) ==
    CASE outcome = "network_error" -> [status |-> 500, calls |-> <<"chat_service">>]
      [] outcome = "non_200" -> [status |-> 404, calls |-> <<"chat_service">>]
      [] outcome = "bad_json" -> [status |-> 500, calls |-> <<"chat_service">>]
      [] outcome = "not_success" -> [status |-> 404, calls |-> <<"chat_service">>]
      [] outcome = "messages_network_error" ->
            [status |-> 500, calls |-> <<"chat_service", "chat_service">>]
      [] outcome = "messages_bad_json" ->
            [status |-> 500, calls |-> <<"chat_service", "chat_service">>]
      [] outcome = "ok" -> [status |-> 200, calls |-> <<"chat_service", "chat_service">>]

\* get_memory_context: the memories' contents, or the exception that escapes
get_memory_context(outcome) ==
    CASE outcome = "network_error" -> [raised |-> FALSE, memories |-> <<>>]
      [] outcome = "non_200" -> [raised |-> FALSE, memories |-> <<>>]
      [] outcome = "bad_json" -> [raised |-> TRUE, memories |-> <<>>]
      [] outcome = "empty" -> [raised |-> FALSE, memories |-> <<>>]
      [] outcome = "found" -> [raised |-> FALSE, memories |-> FoundMemories]

\* chat.py:138-165 and 203-223, the same in chat and chat_stream: the client
\* check, the pre-send moderation, the context and the memories.  status 0: go on.
gather_context_first(configured, env) ==
    IF ~configured
    THEN [status |-> 503, calls |-> <<>>, memories |-> <<>>]
    ELSE LET context == get_conversation_context(env.conv)
         IN  IF context.status # 200
             THEN [status |-> context.status, calls |-> context.calls, memories |-> <<>>]
             ELSE LET moderation == check_moderation(env.pre)
                      c2 == context.calls \o <<"moderation">>
                  IN  IF moderation.raised
                      THEN [status |-> 500, calls |-> c2, memories |-> <<>>]
                      ELSE IF ~GetPassed(moderation)
                      THEN [status |-> 400, calls |-> c2, memories |-> <<>>]
                      ELSE LET mem == get_memory_context(env.mem)
                           IN  [status |-> IF mem.raised THEN 500 ELSE 0,
                                calls |-> c2 \o <<"memory">>,
                                memories |-> mem.memories]

gather(configured, env) ==
    IF ~configured
    THEN [status |-> 503, calls |-> <<>>, memories |-> <<>>]
    ELSE LET moderation == check_moderation(env.pre)
         IN  IF moderation.raised
             THEN [status |-> 500, calls |-> <<"moderation">>, memories |-> <<>>]
             ELSE IF ~GetPassed(moderation)
             THEN [status |-> 400, calls |-> <<"moderation">>, memories |-> <<>>]
             ELSE LET context == get_conversation_context(env.conv)
                      c2 == <<"moderation">> \o context.calls
                  IN  IF context.status # 200
                      THEN [status |-> context.status, calls |-> c2, memories |-> <<>>]
                      ELSE LET mem == get_memory_context(env.mem)
                           IN  [status |-> IF mem.raised THEN 500 ELSE 0,
                                calls |-> c2 \o <<"memory">>,
                                memories |-> mem.memories]

\* chat.py:167-197: the call of the LLM and the moderation of its text
generate_reply_unmoderated(g, env) ==
    IF env.llm.kind = "raises"
    THEN [status |-> 500, content |-> "", calls |-> g.calls \o <<"llm">>]
    ELSE LET response_moderation == check_moderation(env.post)
             calls == g.calls \o <<"llm", "moderation">>
         IN  IF response_moderation.raised
             THEN [status |-> 500, content |-> "", calls |-> calls]
             ELSE [status |-> 200, content |-> env.llm.text, calls |-> calls]

generate_reply(g, env) ==
    IF env.llm.kind = "raises"
    THEN [status |-> 500, content |-> "", calls |-> g.calls \o <<"llm">>]
    ELSE LET response_moderation == check_moderation(env.post)
             calls == g.calls \o <<"llm", "moderation">>
         IN  IF response_moderation.raised
             THEN [status |-> 500, content |-> "", calls |-> calls]
             ELSE [status |-> 200,
                   content |-> IF ~GetPassed(response_moderation) THEN REFUSAL
                               ELSE env.llm.text,
                   calls |-> calls]

ChatEnvs == [pre : ModerationOutcomes, conv : ConversationOutcomes, mem : MemoryOutcomes,
             llm : LlmOutcomes, post : ModerationOutcomes]
StreamEnvs == [pre : ModerationOutcomes, conv : ConversationOutcomes, mem : MemoryOutcomes,
               llm : {NoLlm}, post : {"passed"}]

NoChatRequest ==
    [op |-> "none", memories |-> <<>>,
     env |-> [pre |-> "passed", conv |-> "ok", mem |-> "empty", llm |-> NoLlm,
              post |-> "passed"]]
NoChatResponse == [status |-> 0, content |-> ""]

InitChat ==
    /\ client \in BOOLEAN
    /\ chat_request = NoChatRequest
    /\ chat_response = NoChatResponse
    /\ chat_calls = <<>>
    /\ stream_pc = "idle"
    /\ provider = "none"
    /\ full_content = <<>>
    /\ events = <<>>

\* The service keeps nothing from one request to the next, so a behaviour is
\* one request
Quiet == chat_request.op = "none"

\* POST /chat
Chat ==
    /\ Quiet
    /\ \E env \in ChatEnvs :
        LET g == gather(client, env)
            r == IF g.status # 0
                 THEN [status |-> g.status, content |-> "", calls |-> g.calls]
                 ELSE generate_reply(g, env)
        IN  /\ chat_request' = [op |-> "chat", memories |-> g.memories, env |-> env]
            /\ chat_response' = [status |-> r.status, content |-> r.content]
            /\ chat_calls' = r.calls
    /\ stream_pc' = "idle"
    /\ provider' = "none"
    /\ full_content' = <<>>
    /\ events' = <<>>
    /\ UNCHANGED <<client, modVars, memVars>>

\* POST /chat/stream, up to the return of the EventSourceResponse
ChatStream ==
    /\ Quiet
    /\ \E env \in StreamEnvs :
        LET g == gather(client, env)
        IN  /\ chat_request' = [op |-> "chat_stream", memories |-> g.memories, env |-> env]
            /\ chat_response' = [status |-> IF g.status = 0 THEN 200 ELSE g.status,
                                 content |-> ""]
            /\ chat_calls' = g.calls
            /\ stream_pc' = IF g.status = 0 THEN "ready" ELSE "idle"
    /\ provider' = "none"
    /\ full_content' = <<>>
    /\ events' = <<>>
    /\ UNCHANGED <<client, modVars, memVars>>

ChunkTexts == {<<>>, <<"a">>, <<"b", "c">>}

ChunkEvent(text) == [event |-> "chunk", content |-> text]
DoneEvent(text) == [event |-> "done", content |-> text]
ErrorEvent == [event |-> "error", content |-> <<>>]

\* generate(): client.messages.stream(...) is entered
GenOpen ==
    /\ stream_pc = "ready"
    /\ chat_calls' = Append(chat_calls, "llm")
    /\ \/ /\ stream_pc' = "streaming"
          /\ provider' = "open"
          /\ UNCHANGED events
       \/ /\ stream_pc' = "closed"          \* it raises: except Exception
          /\ provider' = "raised"
          /\ events' = Append(events, ErrorEvent)
    /\ UNCHANGED <<client, chat_request, chat_response, full_content,
                   modVars, memVars>>

\* generate(): the provider streams one text
GenChunk ==
    /\ stream_pc = "streaming"
    /\ Len(events) < MaxChunks
    /\ \E text \in ChunkTexts :
        /\ full_content' = full_content \o text
        /\ events' = Append(events, ChunkEvent(text))
    /\ UNCHANGED <<client, chat_request, chat_response, chat_calls, stream_pc, provider,
                   modVars, memVars>>

\* generate(): text_stream ends
GenDone ==
    /\ stream_pc = "streaming"
    /\ stream_pc' = "closed"
    /\ provider' = "completed"
    /\ events' = Append(events, DoneEvent(full_content))
    /\ UNCHANGED <<client, chat_request, chat_response, chat_calls, full_content,
                   modVars, memVars>>

\* generate(): the provider raises while streaming
GenRaise_then_done ==
    /\ stream_pc = "streaming"
    /\ stream_pc' = "closed"
    /\ provider' = "raised"
    /\ events' = events \o <<ErrorEvent, DoneEvent(full_content)>>
    /\ UNCHANGED <<client, chat_request, chat_response, chat_calls, full_content,
                   modVars, memVars>>

GenRaise ==
    /\ stream_pc = "streaming"
    /\ stream_pc' = "closed"
    /\ provider' = "raised"
    /\ events' = Append(events, ErrorEvent)
    /\ UNCHANGED <<client, chat_request, chat_response, chat_calls, full_content,
                   modVars, memVars>>


-----------------------------------------------------------------------------
(***************************************************************************)
(* MEMORY SERVICE  (memory-service/src/routes/memory.py)                   *)
(***************************************************************************)

\* config.py:27 and memory.py:106
short_term_ttl == 3600
INDEX_TTL_FACTOR == 24

\* Redis reports -1 as the time to live of a key that never expires
NO_EXPIRY == -1

\* Time passes in steps of these many seconds
AdvanceSteps == {12 * short_term_ttl}

Conversations == {"c1", "c2"}
MemContents == {"a", "b", "c"}

\* Limits a RetrieveMemoryRequest can carry: any int
MaxLimit == 2
Limits == (-1)..MaxLimit

\* hash(content): not injective, "b" and "c" collide
Hash(content) ==
    CASE content = "a" -> 11
      [] content = "b" -> 22
      [] content = "c" -> 22

\* memory.py:80: f"{conversation_id}:{hash(content)}"
memory_id_by_content_only(conversation_id, content) == <<"c1", Hash(content)>>

memory_id(conversation_id, content) == <<conversation_id, Hash(content)>>

MemoryIds == {memory_id(c, x) : c \in Conversations, x \in MemContents}

\* Embeddings: None is <<>>
NoEmbedding == <<>>
Vectors == {<<1, 0>>, <<1, 1>>}
QueryVectors == {<<1, 0>>, <<0, 0>>}

\* get_embedding: what the call can return for a content, and for a query
EmbeddingResults(configured) ==
    IF configured THEN Vectors \cup {NoEmbedding} ELSE {NoEmbedding}
QueryEmbeddingResults(configured) ==
    IF configured THEN QueryVectors \cup {NoEmbedding} ELSE {NoEmbedding}

\* A rank is the real number n / sqrt(d2), d2 > 0
Rank(n, d2) == [n |-> n, d2 |-> d2]
Abs(x) == IF x < 0 THEN -x ELSE x
RankLess(r1, r2) == r1.n * Abs(r1.n) * r2.d2 < r2.n * Abs(r2.n) * r1.d2
RankEq(r1, r2) == r1.n * Abs(r1.n) * r2.d2 = r2.n * Abs(r2.n) * r1.d2

Dot(a, b) == a[1] * b[1] + a[2] * b[2]

\* memory.py:148-152
cosine_similarity(a, b) ==
    LET dot == Dot(a, b)
        norm_a2 == Dot(a, a)
        norm_b2 == Dot(b, b)
    IN  IF norm_a2 # 0 /\ norm_b2 # 0 THEN Rank(dot, norm_a2 * norm_b2) ELSE Rank(0, 1)

\* An importance (hundredths) as a rank
ImportanceRank(importance) == Rank(importance, 10000)

\* The value a record is sorted by (memory.py:146-166)
sort_key(query_embedding, m) ==
    IF query_embedding # NoEmbedding
    THEN IF m.embedding # NoEmbedding
         THEN cosine_similarity(query_embedding, m.embedding)
         ELSE ImportanceRank(m.importance)
    ELSE ImportanceRank(m.importance)

\* list.sort(key=..., reverse=True): stable, largest key first
RECURSIVE SortDesc(_, _)
SortDesc(seq, q) ==
    IF seq = <<>> THEN <<>>
    ELSE LET n == Len(seq)
             sorted == SortDesc(SubSeq(seq, 1, n - 1), q)
             x == seq[n]
             \* x goes after every element whose key is not smaller
             k == Cardinality({i \in DOMAIN sorted :
                                ~RankLess(sort_key(q, sorted[i]), sort_key(q, x))})
         IN  SubSeq(sorted, 1, k) \o <<x>> \o SubSeq(sorted, k + 1, Len(sorted))

\* seq[:limit]
Slice(seq, limit) ==
    IF limit >= 0 THEN SubSeq(seq, 1, Min(Len(seq), limit))
    ELSE SubSeq(seq, 1, Max(Len(seq) + limit, 0))

\* All orders in which SMEMBERS can list a set
Orders(S) == {o \in [1..Cardinality(S) -> S] : Range(o) = S}

Restrict(f, D) == [x \in D |-> f[x]]

IndexMembers(idx, c) == IF c \in DOMAIN idx THEN idx[c].members ELSE {}


Put(f, k, v) == [x \in DOMAIN f \cup {k} |-> IF x = k THEN v ELSE f[x]]

\* Redis SETEX
Setex(kv, key, ttl, value) == Put(kv, key, [data |-> value, ttl |-> ttl])

\* Redis SADD: a new set has no expiry
Sadd(idx, key, member) ==
    IF key \in DOMAIN idx
    THEN [idx EXCEPT ![key].members = @ \cup {member}]
    ELSE Put(idx, key, [members |-> {member}, ttl |-> NO_EXPIRY])

\* Redis EXPIRE
Expire(idx, key, ttl) ==
    IF key \in DOMAIN idx THEN [idx EXCEPT ![key].ttl = ttl] ELSE idx

\* Redis DEL of several keys
Del(kv, keys) == Restrict(kv, DOMAIN kv \ keys)

\* What d seconds do to the keys of one Redis map
Elapse(kv, d) ==
    LET alive == {k \in DOMAIN kv : kv[k].ttl = NO_EXPIRY \/ kv[k].ttl > d}
    IN  [k \in alive |-> IF kv[k].ttl = NO_EXPIRY THEN kv[k]
                         ELSE [kv[k] EXCEPT !.ttl = @ - d]]

\* History of a request: the members of the conversation's index as it found
\* them, those of them whose record was live, and whether it replaced a live
\* record by a different one
Found(conv, altered) ==
    [members |-> IndexMembers(memory_index, conv),
     live |-> IndexMembers(memory_index, conv) \cap DOMAIN memory,
     altered |-> altered]
NothingFound == [members |-> {}, live |-> {}, altered |-> FALSE]

NoMemRequest ==
    [op |-> "none", conversation_id |-> "", content |-> "", memory_type |-> "",
     importance |-> 0, query_embedding |-> NoEmbedding, limit |-> 0, fail_at |-> 0]
NoMemResponse == [status |-> 0, id |-> <<>>, memories |-> <<>>, count |-> 0]
NoScore == [n |-> 0, d2 |-> 0]

\* The tasks that serve requests at the same time
MaxTasks == 2
Tasks == 1..MaxTasks

\* A task that serves no call; ids and todo are the locals of clear_memories
IdleCall ==
    [pc |-> "idle", op |-> "none", conversation_id |-> "", content |-> "",
     ids |-> {}, todo |-> {}]

RestSteps ==
    /\ in_flight = [t \in Tasks |-> IdleCall]
    /\ interleaved = FALSE
    /\ started = 0
    /\ clock = 0

InitMem ==
    /\ redis_client \in BOOLEAN
    /\ openai_client \in BOOLEAN
    /\ memory = <<>>
    /\ memory_index = <<>>
    /\ mem_request = NoMemRequest
    /\ mem_response = NoMemResponse
    /\ index_before = NothingFound
    /\ cleared = <<>>
    /\ RestSteps

\* Every handler: 503 when there is no Redis client
Unavailable(op, conv) ==
    /\ ~redis_client
    /\ mem_request' = [NoMemRequest EXCEPT !.op = op, !.conversation_id = conv]
    /\ mem_response' = [NoMemResponse EXCEPT !.status = 503]
    /\ index_before' = NothingFound
    /\ UNCHANGED <<stepVars, redis_client, openai_client, memory, memory_index, cleared,
                   modVars, chatVars>>

\* The record store_memory writes
memory_data(id, request, embedding) ==
    [id |-> id, conversation_id |-> request.conversation_id, content |-> request.content,
     type |-> request.memory_type, importance |-> request.importance,
     embedding |-> embedding]

StoreRequest(conv, content, type, importance) ==
    [conversation_id |-> conv, content |-> content, memory_type |-> type,
     importance |-> importance]

\* The StoreMemoryRequests tried
StoreRequests ==
    { StoreRequest("c1", "a", "fact", 20),
      StoreRequest("c1", "a", "preference", 20),
      StoreRequest("c1", "a", "fact", 80),
      StoreRequest("c1", "b", "fact", 80),
      StoreRequest("c1", "c", "fact", 20),
      StoreRequest("c2", "a", "fact", 20) }

\* store_memory's three Redis commands.  A Redis outage lasts a whole request:
\* fail_at = 1, the first command raises (0: none does)
store_effects(request, embedding, fail_at) ==
    LET id == memory_id(request.conversation_id, request.content)
        index_key == request.conversation_id
        m1 == IF fail_at = 1 THEN memory
              ELSE Setex(memory, id, short_term_ttl, memory_data(id, request, embedding))
        i2 == IF fail_at \in {1, 2} THEN memory_index ELSE Sadd(memory_index, index_key, id)
        i3 == IF fail_at \in {1, 2, 3} THEN i2
              ELSE Expire(i2, index_key, short_term_ttl * INDEX_TTL_FACTOR)
    IN  [id |-> id, memory |-> m1, memory_index |-> i3]

\* POST /memory/store
StoreMemory ==
    \/ \E conv \in Conversations : Unavailable("store", conv)
    \/ /\ redis_client
       /\ \E request \in StoreRequests, fail_at \in 0..1 :
          \E embedding \in (IF fail_at = 0 THEN EmbeddingResults(openai_client)
                            ELSE {NoEmbedding}) :
            LET e == store_effects(request, embedding, fail_at)
            IN  /\ memory' = e.memory
                /\ memory_index' = e.memory_index
                /\ mem_request' =
                     [NoMemRequest EXCEPT !.op = "store",
                        !.conversation_id = request.conversation_id,
                        !.content = request.content,
                        !.memory_type = request.memory_type,
                        !.importance = request.importance,
                        !.fail_at = fail_at]
                /\ mem_response' =
                     IF fail_at = 0
                     THEN [NoMemResponse EXCEPT !.status = 200, !.id = e.id]
                     ELSE [NoMemResponse EXCEPT !.status = 500]
                /\ index_before' =
                     Found(request.conversation_id,
                           /\ e.id \in DOMAIN memory
                           /\ e.memory[e.id].data # memory[e.id].data)
                /\ cleared' = Restrict(cleared, DOMAIN cleared \ {request.conversation_id})
       /\ UNCHANGED <<stepVars, redis_client, openai_client,
                      modVars, chatVars>>

\* The view of a record that retrieve_memories returns
memory_view(q, m) ==
    [id |-> m.id, content |-> m.content, type |-> m.type, importance |-> m.importance,
     relevance_score |-> IF q # NoEmbedding THEN sort_key(q, m) ELSE NoScore]

\* retrieve_memories, given the order in which SMEMBERS lists the index
retrieve_stale_raises(conv, query_embedding, limit, order) ==
    IF \E i \in DOMAIN order : order[i] \notin DOMAIN memory
    THEN [status |-> 500, memories |-> <<>>]
    ELSE LET memories == [i \in DOMAIN order |-> memory[order[i]].data]
             top_memories == Slice(SortDesc(memories, query_embedding), limit)
         IN  [status |-> 200,
              memories |-> [i \in DOMAIN top_memories |->
                               memory_view(query_embedding, top_memories[i])]]

retrieve(conv, query_embedding, limit, order) ==
    IF order = <<>>
    THEN [status |-> 200, memories |-> <<>>]
    ELSE LET found == SelectSeq(order, LAMBDA mid : mid \in DOMAIN memory)
             memories == [i \in DOMAIN found |-> memory[found[i]].data]
             top_memories == Slice(SortDesc(memories, query_embedding), limit)
         IN  [status |-> 200,
              memories |-> [i \in DOMAIN top_memories |->
                               memory_view(query_embedding, top_memories[i])]]

\* POST /memory/retrieve
RetrieveMemories ==
    \/ \E conv \in Conversations : Unavailable("retrieve", conv)
    \/ /\ redis_client
       /\ \E conv \in Conversations, fail_at \in 0..1 :
          \E limit \in (IF fail_at = 0 THEN Limits ELSE {0}) :
          \E order \in (IF fail_at = 0 THEN Orders(IndexMembers(memory_index, conv))
                        ELSE {<<>>}) :
          \E q \in (IF order = <<>> THEN {NoEmbedding}
                    ELSE QueryEmbeddingResults(openai_client)) :
            LET r == retrieve(conv, q, limit, order)
            IN  /\ mem_request' =
                     [NoMemRequest EXCEPT !.op = "retrieve", !.conversation_id = conv,
                        !.query_embedding = q, !.limit = limit, !.fail_at = fail_at]
                /\ mem_response' =
                     IF fail_at = 0
                     THEN [NoMemResponse EXCEPT !.status = r.status,
                                                !.memories = r.memories]
                     ELSE [NoMemResponse EXCEPT !.status = 500]
                /\ index_before' = Found(conv, FALSE)
       /\ UNCHANGED <<stepVars, redis_client, openai_client, memory, memory_index, cleared,
                      modVars, chatVars>>

\* clear_memories's count
cleared_count_live(memory_ids) == Cardinality(memory_ids \cap DOMAIN memory)

cleared_count(memory_ids) == Cardinality(memory_ids)

\* DELETE /memory/{conversation_id}
ClearMemories ==
    \/ \E conv \in Conversations : Unavailable("clear", conv)
    \/ /\ redis_client
       /\ \E conv \in Conversations, fail_at \in 0..1 :
            LET memory_ids == IndexMembers(memory_index, conv)
            IN  /\ \/ /\ fail_at = 0
                      /\ memory' = Del(memory, memory_ids)
                      /\ memory_index' = Del(memory_index, {conv})
                      /\ cleared' = Put(cleared, conv, cleared_count(memory_ids))
                   \/ /\ fail_at = 1
                      /\ UNCHANGED <<memory, memory_index, cleared>>
                /\ mem_request' =
                     [NoMemRequest EXCEPT !.op = "clear", !.conversation_id = conv,
                                          !.fail_at = fail_at]
                /\ mem_response' =
                     IF fail_at = 0
                     THEN [NoMemResponse EXCEPT !.status = 200,
                                                !.count = cleared_count(memory_ids)]
                     ELSE [NoMemResponse EXCEPT !.status = 500]
                /\ index_before' = Found(conv, FALSE)
       /\ UNCHANGED <<stepVars, redis_client, openai_client,
                      modVars, chatVars>>

\* get_memory_summary's total_memories
total_memories(memory_ids) == Cardinality(memory_ids)

\* GET /memory/{conversation_id}/summary
GetMemorySummary ==
    \/ \E conv \in Conversations : Unavailable("summary", conv)
    \/ /\ redis_client
       /\ \E conv \in Conversations, fail_at \in 0..1 :
            LET memory_ids == IndexMembers(memory_index, conv)
            IN  /\ mem_request' =
                     [NoMemRequest EXCEPT !.op = "summary", !.conversation_id = conv,
                                          !.fail_at = fail_at]
                /\ mem_response' =
                     IF fail_at = 0
                     THEN [NoMemResponse EXCEPT !.status = 200,
                                                !.count = total_memories(memory_ids)]
                     ELSE [NoMemResponse EXCEPT !.status = 500]
                /\ index_before' = Found(conv, FALSE)
       /\ UNCHANGED <<stepVars, redis_client, openai_client, memory, memory_index, cleared,
                      modVars, chatVars>>

\* Redis expires keys as time passes, between two requests: the response of
\* the last one has been delivered
Advance ==
    /\ \E d \in AdvanceSteps :
        /\ memory' = Elapse(memory, d)
        /\ memory_index' = Elapse(memory_index, d)
    /\ <<memory', memory_index'>> # <<memory, memory_index>>
    /\ mem_request' = NoMemRequest
    /\ mem_response' = NoMemResponse
    /\ index_before' = NothingFound
    /\ UNCHANGED <<stepVars, redis_client, openai_client, cleared, modVars, chatVars>>

-----------------------------------------------------------------------------
(***************************************************************************)
(* MEMORY SERVICE, COMMAND BY COMMAND                                      *)
(* store_memory and clear_memories are coroutines: every await of a Redis  *)
(* command is a point where another request's coroutine, or the expiry of  *)
(* a key, can come in between.  One action per Redis command.              *)
(***************************************************************************)

MaxCalls == 3           \* calls begun in one behaviour
MaxTicks == 2           \* expiry steps in one behaviour

\* The time one expiry step takes: half the time a record lives
TICK == short_term_ttl \div 2

StepConversation == "c1"
StepContents == {"a", "b"}

\* An index left by an earlier store_memory of "a" whose record has expired,
\* with one expiry step of its own time left
AgedIndex ==
    Put(<<>>, StepConversation,
        [members |-> {memory_id(StepConversation, "a")}, ttl |-> TICK])

InFlight(t) == in_flight[t].pc # "idle"
OthersInFlight(t) == \E u \in Tasks \ {t} : InFlight(u)
AllReturned == \A t \in Tasks : ~InFlight(t)

StepRequest(t) ==
    StoreRequest(in_flight[t].conversation_id, in_flight[t].content, "fact", 20)
StepId(t) == memory_id(in_flight[t].conversation_id, in_flight[t].content)

\* A task goes from one await to the next
Goto(t, pc) == in_flight' = [in_flight EXCEPT ![t].pc = pc]

\* store_memory is called: lines 75-93, up to the first Redis command
StoreBegin(t) ==
    /\ ~InFlight(t)
    /\ started < MaxCalls
    /\ \E content \in StepContents :
        in_flight' = [in_flight EXCEPT ![t] =
            [IdleCall EXCEPT !.pc = "setex", !.op = "store",
                             !.conversation_id = StepConversation,
                             !.content = content]]
    /\ started' = started + 1
    /\ interleaved' = (interleaved \/ OthersInFlight(t))
    /\ UNCHANGED <<memory, memory_index, clock>>

\* await redis_client.setex(key, settings.short_term_ttl, json.dumps(memory_data))
StoreSetex(t) ==
    /\ in_flight[t].pc = "setex"
    /\ memory' = Setex(memory, StepId(t), short_term_ttl,
                       memory_data(StepId(t), StepRequest(t), NoEmbedding))
    /\ Goto(t, "sadd")
    /\ UNCHANGED <<memory_index, interleaved, started, clock>>

\* await redis_client.sadd(index_key, memory_id)
StoreSadd(t) ==
    /\ in_flight[t].pc = "sadd"
    /\ memory_index' = Sadd(memory_index, in_flight[t].conversation_id, StepId(t))
    /\ Goto(t, "expire")
    /\ UNCHANGED <<memory, interleaved, started, clock>>

\* await redis_client.expire(index_key, settings.short_term_ttl * 24), and return
StoreExpire_record_ttl(t) ==
    /\ in_flight[t].pc = "expire"
    /\ memory_index' = Expire(memory_index, in_flight[t].conversation_id, TICK)
    /\ Goto(t, "idle")
    /\ UNCHANGED <<memory, interleaved, started, clock>>

StoreExpire(t) ==
    /\ in_flight[t].pc = "expire"
    /\ memory_index' = Expire(memory_index, in_flight[t].conversation_id,
                              short_term_ttl * INDEX_TTL_FACTOR)
    /\ Goto(t, "idle")
    /\ UNCHANGED <<memory, interleaved, started, clock>>

\* clear_memories is called: lines 194-199, up to the first Redis command
ClearBegin(t) ==
    /\ ~InFlight(t)
    /\ started < MaxCalls
    /\ in_flight' = [in_flight EXCEPT ![t] =
            [IdleCall EXCEPT !.pc = "smembers", !.op = "clear",
                             !.conversation_id = StepConversation]]
    /\ started' = started + 1
    /\ interleaved' = (interleaved \/ OthersInFlight(t))
    /\ UNCHANGED <<memory, memory_index, clock>>

\* memory_ids = await redis_client.smembers(index_key)
ClearSmembers(t) ==
    /\ in_flight[t].pc = "smembers"
    /\ LET memory_ids == IndexMembers(memory_index, in_flight[t].conversation_id)
       IN  in_flight' = [in_flight EXCEPT
                ![t].ids = memory_ids, ![t].todo = memory_ids,
                ![t].pc = IF memory_ids = {} THEN "delete_index" ELSE "delete"]
    /\ UNCHANGED <<memory, memory_index, interleaved, started, clock>>

\* One turn of "for mid in memory_ids: await redis_client.delete(key)"
ClearDelete(t) ==
    /\ in_flight[t].pc = "delete"
    /\ \E mid \in in_flight[t].todo :
        /\ memory' = Del(memory, {mid})
        /\ in_flight' = [in_flight EXCEPT
                ![t].todo = @ \ {mid},
                ![t].pc = IF in_flight[t].todo = {mid} THEN "delete_index" ELSE "delete"]
    /\ UNCHANGED <<memory_index, interleaved, started, clock>>

\* await redis_client.delete(index_key), and return len(memory_ids)
ClearDeleteIndex(t) ==
    /\ in_flight[t].pc = "delete_index"
    /\ memory_index' = Del(memory_index, {in_flight[t].conversation_id})
    /\ Goto(t, "idle")
    /\ UNCHANGED <<memory, interleaved, started, clock>>

\* Redis expires keys as time passes, also while calls are in flight
Tick ==
    /\ clock < MaxTicks
    /\ clock' = clock + 1
    /\ memory' = Elapse(memory, TICK)
    /\ memory_index' = Elapse(memory_index, TICK)
    /\ interleaved' = (interleaved \/ \E t \in Tasks : InFlight(t))
    /\ UNCHANGED <<in_flight, started>>

\* What the command-by-command actions leave alone
StepFrame ==
    UNCHANGED <<redis_client, openai_client, mem_request, mem_response, index_before,
                cleared, modVars, chatVars>>

InitMemSteps ==
    /\ redis_client = TRUE
    /\ openai_client = FALSE
    /\ memory = <<>>
    /\ memory_index \in {<<>>, AgedIndex}
    /\ mem_request = NoMemRequest
    /\ mem_response = NoMemResponse
    /\ index_before = NothingFound
    /\ cleared = <<>>
    /\ RestSteps

-----------------------------------------------------------------------------
(* The specifications: one per service, the other services at rest *)

vars == <<modVars, chatVars, memVars>>

RestMod ==
    /\ claude_client = FALSE
    /\ mod_request = NoModRequest
    /\ mod_response = NoModResponse
    /\ ai_checks = 0
    /\ llm_calls = 0
    /\ batch_request = NoBatchRequest
    /\ batch_response = NoBatchResponse

RestChat ==
    /\ client = FALSE
    /\ chat_request = NoChatRequest
    /\ chat_response = NoChatResponse
    /\ chat_calls = <<>>
    /\ stream_pc = "idle"
    /\ provider = "none"
    /\ full_content = <<>>
    /\ events = <<>>

RestMem ==
    /\ redis_client = TRUE
    /\ openai_client = FALSE
    /\ memory = <<>>
    /\ memory_index = <<>>
    /\ mem_request = NoMemRequest
    /\ mem_response = NoMemResponse
    /\ index_before = NothingFound
    /\ cleared = <<>>
    /\ RestSteps

NextModeration ==
    \/ ModerateContent
    \/ ModerateBatch

InitModeration == InitMod /\ RestChat /\ RestMem

SpecModeration == InitModeration /\ [][NextModeration]_vars

NextChat ==
    \/ Chat
    \/ ChatStream
    \/ GenOpen
    \/ GenChunk
    \/ GenDone
    \/ GenRaise

InitChatService == RestMod /\ InitChat /\ RestMem

SpecChat == InitChatService /\ [][NextChat]_vars

NextMem ==
    \/ StoreMemory
    \/ RetrieveMemories
    \/ ClearMemories
    \/ GetMemorySummary
    \/ Advance

InitMemoryService == RestMod /\ RestChat /\ InitMem

SpecMemory == InitMemoryService /\ [][NextMem]_vars

StoreBeginStep == StepFrame /\ \E t \in Tasks : StoreBegin(t)
StoreSetexStep == StepFrame /\ \E t \in Tasks : StoreSetex(t)
StoreSaddStep == StepFrame /\ \E t \in Tasks : StoreSadd(t)
StoreExpireStep == StepFrame /\ \E t \in Tasks : StoreExpire(t)
ClearBeginStep == StepFrame /\ \E t \in Tasks : ClearBegin(t)
ClearSmembersStep == StepFrame /\ \E t \in Tasks : ClearSmembers(t)
ClearDeleteStep == StepFrame /\ \E t \in Tasks : ClearDelete(t)
ClearDeleteIndexStep == StepFrame /\ \E t \in Tasks : ClearDeleteIndex(t)
TickStep == StepFrame /\ Tick

NextMemSteps ==
    \/ StoreBeginStep
    \/ StoreSetexStep
    \/ StoreSaddStep
    \/ StoreExpireStep
    \/ ClearBeginStep
    \/ ClearSmembersStep
    \/ ClearDeleteStep
    \/ ClearDeleteIndexStep
    \/ TickStep

InitMemorySteps == RestMod /\ RestChat /\ InitMemSteps

SpecMemorySteps == InitMemorySteps /\ [][NextMemSteps]_vars


-----------------------------------------------------------------------------
(***************************************************************************)
(* PROPERTIES                                                              *)
(***************************************************************************)

Moderated == mod_request.op = "moderate"

\* The content of the request matches at least one blocked pattern
MatchesBlocked(content) == \E p \in 1..4 : re_search(p, content)

\* C1: whenever the content of a moderate request matches a blocked pattern,
\* whatever the filter level and whatever the classifier would answer, the
\* response has passed = false and score = 1.0 and the classifier was not
\* invoked (neither check_ai_moderation nor the LLM was called).
C1_BlockedPatternShortCircuits ==
    (Moderated /\ MatchesBlocked(mod_request.content)) =>
        /\ mod_response.passed = FALSE
        /\ mod_response.score = 100
        /\ ai_checks = 0
        /\ llm_calls = 0

\* A blocked content for which a configured classifier would have answered
\* "safe": no flags, score 0
C1_Witness ==
    /\ Moderated
    /\ claude_client
    /\ mod_request.content = <<"Kill", "someone">>
    /\ mod_request.filter_level = "relaxed"
    /\ mod_request.reply.kind = "json"
    /\ mod_request.reply.flags = <<>>
    /\ mod_request.reply.score = 0
    /\ mod_response.passed = FALSE

\* The threshold C2 states for a filter level
C2_Threshold(filter_level) ==
    IF filter_level = "strict" THEN severity_threshold_low
    ELSE IF filter_level = "relaxed" THEN severity_threshold_high
    ELSE severity_threshold_medium

\* C2: a moderate response has passed = true iff its score is strictly below
\* the threshold of the request's filter level and none of its flags has
\* severity "high"; the threshold is the low / medium / high setting for
\* strict / moderate / relaxed and the medium setting for any other level.
C2_PassedIffBelowThresholdAndNoHighFlag ==
    Moderated =>
        (mod_response.passed <=>
            /\ mod_response.score < C2_Threshold(mod_request.filter_level)
            /\ ~AnyHigh(mod_response.flags))

\* An unknown filter level, a score between the low and the medium threshold
C2_Witness ==
    /\ Moderated
    /\ mod_request.filter_level = "lenient"
    /\ mod_response.score = 59
    /\ mod_response.flags # <<>>
    /\ mod_response.passed


Streamed == chat_request.op = "chat_stream" /\ chat_response.status = 200

\* The texts of the chunk events among the first n events, concatenated in order
RECURSIVE ChunkTextUpTo(_)
ChunkTextUpTo(n) ==
    IF n = 0 THEN <<>>
    ELSE ChunkTextUpTo(n - 1) \o
         (IF events[n].event = "chunk" THEN events[n].content ELSE <<>>)

IsTerminal(e) == e.event \in {"done", "error"}

\* C3: the events of a chat_stream call that passed its preconditions are
\* chunk events followed, once the stream is over, by exactly one terminal
\* event, done or error, with nothing after it.  If the provider raised
\* (before the first chunk or later) the terminal event is error and there is
\* no done event; if it completed, the terminal event is done and carries the
\* concatenation, in order, of the texts of the chunks before it.
C3_StreamEventSequence ==
    Streamed =>
        LET n == Len(events)
        IN  /\ \A i \in 1..n : events[i].event \in {"chunk", "done", "error"}
            /\ \A i \in 1..(n - 1) : events[i].event = "chunk"
            /\ stream_pc = "closed" <=> (n > 0 /\ IsTerminal(events[n]))
            /\ stream_pc = "closed" <=> provider \in {"raised", "completed"}
            /\ provider = "raised" => events[n].event = "error"
            /\ provider = "completed" =>
                  /\ events[n] = DoneEvent(ChunkTextUpTo(n - 1))
                  /\ events[n].content = full_content

\* The provider raised after two chunks that carried text
C3_Witness ==
    /\ Streamed
    /\ provider = "raised"
    /\ Len(events) = 3
    /\ events[1].content # <<>>
    /\ events[2].content # <<>>
    /\ events[3] = ErrorEvent

Requested == chat_request.op \in {"chat", "chat_stream"}

Called(who) == \E i \in DOMAIN chat_calls : chat_calls[i] = who
TimesCalled(who) == Cardinality({i \in DOMAIN chat_calls : chat_calls[i] = who})

\* The pre-send moderation did not block and did not break: the service was
\* down or answered without a verdict of passed = false
PreSendLetThrough == chat_request.env.pre \in
    {"network_error", "non_200", "no_data", "no_passed", "passed"}

\* C4: chat and chat_stream check their preconditions in the order client,
\* pre-send moderation, conversation.  Without a client the answer is 503 and
\* no collaborator was called; with a pre-send verdict of passed = false it
\* is 400 and only the moderation service was called; with a conversation
\* that does not resolve it is 404 and the LLM was not called.  The LLM is
\* called at most once per request, and a chat_stream whose precondition
\* failed emitted no event.
C4_PreconditionOrder ==
    Requested =>
        /\ ~client => chat_response.status = 503 /\ chat_calls = <<>>
        /\ (client /\ chat_request.env.pre = "blocked") =>
              /\ chat_response.status = 400
              /\ chat_calls = <<"moderation">>
        /\ (client /\ PreSendLetThrough
                   /\ chat_request.env.conv \in {"non_200", "not_success"}) =>
              /\ chat_response.status = 404
              /\ ~Called("llm")
        /\ TimesCalled("llm") <= 1
        /\ (chat_request.op = "chat_stream" /\ chat_response.status # 200) =>
              /\ events = <<>>
              /\ stream_pc = "idle"

\* A blocked message for a conversation that would not have resolved either
C4_Witness ==
    /\ chat_request.op = "chat_stream"
    /\ client
    /\ chat_request.env.pre = "blocked"
    /\ chat_request.env.conv = "non_200"
    /\ chat_response.status = 400

\* C5: with a client, a network failure of the memory service means "no
\* memories" and the request goes on to the LLM; a network failure of the
\* moderation service means "passed", before sending (the request goes on to
\* the chat-service, it is not a 400) and after generating (the generated
\* text is returned with a 200); a failure of the chat-service (network
\* failure or unresolved conversation) makes the request fail, the LLM not
\* called.
C5_DegradeOrFail ==
    (Requested /\ client) =>
        /\ (chat_request.env.mem = "network_error" /\ Called("memory")) =>
              /\ chat_request.memories = <<>>
              /\ Called("llm") \/ stream_pc = "ready"
        /\ chat_request.env.pre = "network_error" =>
              /\ chat_response.status # 400
              /\ Called("chat_service")
        /\ (chat_request.op = "chat" /\ Called("llm")
                /\ chat_request.env.llm.kind # "raises"
                /\ chat_request.env.post = "network_error") =>
              /\ chat_response.status = 200
              /\ chat_response.content = chat_request.env.llm.text
        /\ chat_request.env.conv \in
              {"network_error", "messages_network_error", "non_200", "not_success"} =>
              /\ chat_response.status \in {400, 404, 500}
              /\ ~Called("llm")
              /\ stream_pc = "idle"

\* All three soft dependencies down, and still an answer
C5_Witness ==
    /\ chat_request.op = "chat"
    /\ chat_request.env.pre = "network_error"
    /\ chat_request.env.mem = "network_error"
    /\ chat_request.env.post = "network_error"
    /\ chat_request.env.llm = [kind |-> "text", text |-> "Hello!"]
    /\ chat_response = [status |-> 200, content |-> "Hello!"]

\* C6: in a successful chat response the content is the fixed refusal string
\* if the verdict on the generated text is passed = false, and the generated
\* text otherwise; a verdict of passed = false on the generated text never
\* makes the request an error.
C6_PostModerationReplaces ==
    (chat_request.op = "chat" /\ Called("llm")
            /\ chat_request.env.llm.kind # "raises") =>
        /\ chat_request.env.post = "blocked" =>
              chat_response = [status |-> 200, content |-> REFUSAL]
        /\ (chat_response.status = 200 /\ chat_request.env.post # "blocked") =>
              chat_response.content = chat_request.env.llm.text

\* A generated text that the moderation service rejects
C6_Witness ==
    /\ chat_request.op = "chat"
    /\ chat_request.env.llm = [kind |-> "text", text |-> "something unsafe"]
    /\ chat_request.env.post = "blocked"
    /\ chat_response = [status |-> 200, content |-> REFUSAL]


Served(op) == mem_request.op = op /\ mem_response.status = 200

\* The records retrieve_memories can return for a conversation: the live
\* records its index names
Retrievable(conv) == IndexMembers(memory_index, conv) \cap DOMAIN memory

\* C7: clear_memories on a conversation whose index holds N ids reports
\* cleared = N, the ids whose record had expired counted, and leaves neither
\* the index nor any record it named; a retrieve_memories on a conversation
\* that was cleared, no store_memory on it since, returns no memory.
C7_ClearCountsIndexThenRetrieveEmpty ==
    /\ Served("clear") =>
          /\ mem_response.count = Cardinality(index_before.members)
          /\ mem_request.conversation_id \notin DOMAIN memory_index
          /\ index_before.members \cap DOMAIN memory = {}
    /\ (Served("retrieve") /\ mem_request.conversation_id \in DOMAIN cleared) =>
          mem_response.memories = <<>>
    /\ \A c \in DOMAIN cleared : Retrievable(c) = {}

\* A retrieve_memories with a positive limit, after a clear_memories that
\* reported two memories, while the other conversation has a live record
C7_Witness ==
    /\ Served("retrieve")
    /\ mem_request.conversation_id = "c1"
    /\ mem_request.limit > 0
    /\ "c1" \in DOMAIN cleared
    /\ cleared["c1"] = 2
    /\ Retrievable("c2") # {}
    /\ mem_response.memories = <<>>

\* A clear_memories that reported two memories when one record had expired
C7_WitnessStaleCounted ==
    /\ Served("clear")
    /\ mem_response.count = 2
    /\ Cardinality(index_before.live) = 1

\* The rank C8 states for a record, given the query's embedding
C8_Rank(q, data) ==
    IF q # NoEmbedding /\ data.embedding # NoEmbedding
    THEN cosine_similarity(q, data.embedding)
    ELSE ImportanceRank(data.importance)

C8_Returned == {mem_response.memories[i].id : i \in DOMAIN mem_response.memories}

C8_RankAt(i) == C8_Rank(mem_request.query_embedding, memory[mem_response.memories[i].id].data)

\* The ranks of the returned memories never increase, and no live indexed
\* memory that was left out ranks strictly above a returned one
C8_RankedTop ==
    /\ \A i, j \in DOMAIN mem_response.memories :
          i < j => ~RankLess(C8_RankAt(i), C8_RankAt(j))
    /\ \A id \in Retrievable(mem_request.conversation_id) \ C8_Returned :
          \A i \in DOMAIN mem_response.memories :
              ~RankLess(C8_RankAt(i),
                        C8_Rank(mem_request.query_embedding, memory[id].data))

\* C8: for every limit, 0 and the negative ones included, retrieve_memories
\* returns at most limit memories (none for a limit below 1), in
\* non-increasing order of rank, and no live indexed memory it leaves out
\* ranks strictly above one it returns.
C8_AtMostLimitRankedTop ==
    Served("retrieve") =>
        /\ Len(mem_response.memories) <= Max(mem_request.limit, 0)
        /\ C8_RankedTop

\* What holds of the code for every limit: the order, and the number of
\* memories that list[:limit] leaves
C8_SliceOfRanking ==
    Served("retrieve") =>
        /\ C8_RankedTop
        /\ LET n == Cardinality(Retrievable(mem_request.conversation_id))
               limit == mem_request.limit
           IN  Len(mem_response.memories) =
                  IF limit >= 0 THEN Min(n, limit) ELSE Max(n + limit, 0)

\* The id C9 expects store_memory to derive
C9_Id(conv, content) == <<conv, Hash(content)>>

\* C9 as claimed: the content, type, importance and embedding of a live
\* record never change
C9_RecordsNeverChange ==
    [][\A id \in DOMAIN memory \cap DOMAIN memory' :
            memory'[id].data = memory[id].data]_vars

\* C9, amended: a live record is altered only by a store_memory that derives
\* its id (the same conversation_id, a content with the same hash), and then
\* it is the record of that request; no other operation alters a live
\* record; the id and the conversation_id of a record never change.
C9_OnlySameIdStoreAlters ==
    [][\A id \in DOMAIN memory \cap DOMAIN memory' :
            /\ memory'[id].data.id = id
            /\ memory'[id].data.conversation_id = memory[id].data.conversation_id
            /\ memory'[id].data # memory[id].data =>
                  /\ mem_request'.op = "store"
                  /\ C9_Id(mem_request'.conversation_id, mem_request'.content) = id
                  /\ memory'[id].data.content = mem_request'.content
                  /\ memory'[id].data.type = mem_request'.memory_type
                  /\ memory'[id].data.importance = mem_request'.importance]_vars

\* A store_memory that replaced a live record by a record of another type
\* for the same content
C9_Witness ==
    /\ Served("store")
    /\ index_before.altered
    /\ mem_request.content = "a"
    /\ mem_request.memory_type = "preference"
    /\ memory[mem_response.id].data.type = "preference"

\* C10: retrieve_memories fails only if Redis does, never because an id of
\* the index names no record; what it returns are live records that the
\* index of the conversation names, of that conversation; get_memory_summary
\* reports the size of the index, which is at least the number of records
\* retrieve_memories can return.
C10_StaleEntriesSkipped ==
    /\ (mem_request.op = "retrieve" /\ redis_client /\ mem_request.fail_at = 0) =>
          mem_response.status = 200
    /\ Served("retrieve") =>
          \A i \in DOMAIN mem_response.memories :
              LET m == mem_response.memories[i]
              IN  /\ m.id \in Retrievable(mem_request.conversation_id)
                  /\ memory[m.id].data.conversation_id = mem_request.conversation_id
                  /\ memory[m.id].data.content = m.content
    /\ Served("summary") =>
          /\ mem_response.count =
                Cardinality(IndexMembers(memory_index, mem_request.conversation_id))
          /\ mem_response.count >=
                Cardinality(Retrievable(mem_request.conversation_id))

\* A retrieve_memories that returned a record from an index that also named
\* an expired one
C10_Witness ==
    /\ Served("retrieve")
    /\ index_before.members \ index_before.live # {}
    /\ Len(mem_response.memories) = 1

\* A summary that counted more than can be retrieved
C10_WitnessOvercount ==
    /\ Served("summary")
    /\ mem_response.count = 2
    /\ Cardinality(Retrievable(mem_request.conversation_id)) = 1


-----------------------------------------------------------------------------
(* The batch endpoint and the classifier's failures *)

Batched == batch_request.op = "batch"

\* The items of the body that moderate_batch processes
Processed == 1..Min(Len(batch_request.contents), BATCH_LIMIT)

\* C11: every ModerationResult returned by moderate or moderate_batch has a
\* score in [0,1], for every content and every value the classifier can
\* return as its "score" field.
C11_ScoreInUnitInterval ==
    /\ (Moderated /\ mod_response.status = 200) =>
            (mod_response.score >= 0 /\ mod_response.score <= 100)
    /\ (Batched /\ batch_response.status = 200) =>
            \A i \in DOMAIN batch_response.results :
                /\ batch_response.results[i].score >= 0
                /\ batch_response.results[i].score <= 100

\* The classifier is unconfigured, raises, or answers with something that is
\* not the expected JSON object
C12_Degraded(reply) ==
    \/ ~claude_client
    \/ reply.kind \in {"raises", "not_json", "not_object", "bad_flags", "bad_score"}

\* The verdict C12 states for a content when the classifier is degraded
C12_FailsOpen(content, result) ==
    IF MatchesBlocked(content)
    THEN result.passed = FALSE
    ELSE result.passed = TRUE /\ result.score = 0 /\ result.flags = <<>>

\* C12: when the classifier is unconfigured, raises, or returns something
\* that is not the expected JSON object, moderate and moderate_batch still
\* answer 200: the classifier contributes no flags and score 0, so a content
\* matching no blocked pattern gets passed = true and score 0, and a content
\* matching a blocked pattern gets passed = false.
C12_ClassifierFailureFailsOpen ==
    /\ (Moderated /\ C12_Degraded(mod_request.reply)) =>
            /\ mod_response.status = 200
            /\ C12_FailsOpen(mod_request.content, mod_response)
    /\ Batched =>
            /\ batch_response.status = 200
            /\ \A i \in Processed :
                C12_Degraded(batch_request.replies[i]) =>
                    /\ i \in DOMAIN batch_response.results
                    /\ C12_FailsOpen(batch_request.contents[i], batch_response.results[i])

\* A batch whose classifier raises on a harmless item and answers with
\* something that is not JSON on a blocked one
C12_Witness ==
    /\ Batched
    /\ claude_client
    /\ batch_request.contents = << <<"hello", "world">>, <<"Kill", "someone">> >>
    /\ batch_request.replies[1].kind = "raises"
    /\ batch_request.replies[2].kind = "not_json"
    /\ batch_response.status = 200
    /\ batch_response.results[1].passed
    /\ ~batch_response.results[2].passed

\* C13: moderate_batch returns exactly min(len(contents), 10) results; the
\* i-th is the verdict of the i-th content, the one a batch of that content
\* alone gets; and every item matching a blocked pattern has passed = false,
\* whatever the classifier returns and whether or not there is a classifier.
C13_BatchResultsPerItem ==
    Batched =>
        /\ batch_response.status = 200
        /\ Len(batch_response.results) = Min(Len(batch_request.contents), 10)
        /\ \A i \in DOMAIN batch_response.results :
            /\ batch_response.results[i] =
                 moderate_batch(claude_client, <<batch_request.contents[i]>>,
                                <<batch_request.replies[i]>>).results[1]
            /\ MatchesBlocked(batch_request.contents[i]) =>
                 batch_response.results[i].passed = FALSE

\* A body of eleven items, cut to ten, with a blocked item that the
\* classifier calls safe and a harmless one
C13_Witness ==
    /\ Batched
    /\ claude_client
    /\ Len(batch_request.contents) = 11
    /\ Len(batch_response.results) = 10
    /\ batch_request.contents[1] = <<"how", "to", "make", "bomb">>
    /\ batch_request.replies[1].kind = "json"
    /\ batch_request.replies[1].flags = <<>>
    /\ batch_request.replies[1].score = 0
    /\ batch_request.contents[2] = <<"hello", "world">>
    /\ ~batch_response.results[1].passed
    /\ batch_response.results[2].passed

\* C14: moderate_batch(["hello world", "how to make a bomb"]) returns two
\* results and the second has passed = false, also when the classifier is
\* unavailable.
C14_BombExampleBlocked ==
    (/\ Batched
     /\ batch_request.contents =
            << <<"hello", "world">>, <<"how", "to", "make", "a", "bomb">> >>) =>
        /\ Len(batch_response.results) = 2
        /\ batch_response.results[2].passed = FALSE

\* What the classifier gives as the score of an item: the "score" of a reply
\* that is the expected JSON, 0 otherwise
C15_RawScore(reply) ==
    IF claude_client /\ reply.kind = "json" /\ reply.has_score THEN reply.score ELSE 0

\* C15: for every item moderate_batch processes, the classifier is invoked
\* and the score returned is the raw classifier score, with the fixed
\* "moderate" threshold deciding passed; for a content matching a blocked
\* pattern, moderate returns score 1.0 and moderate_batch the classifier's
\* score, and both return passed = false.
C15_BatchUsesRawScore ==
    Batched =>
        /\ ai_checks = Len(batch_response.results)
        /\ llm_calls = (IF claude_client THEN Len(batch_response.results) ELSE 0)
        /\ \A i \in DOMAIN batch_response.results :
            LET content == batch_request.contents[i]
                reply == batch_request.replies[i]
                result == batch_response.results[i]
                single == moderate_content(claude_client, content, "moderate", reply)
            IN  /\ result.score = C15_RawScore(reply)
                /\ result.passed <=>
                     (result.score < severity_threshold_medium /\ ~AnyHigh(result.flags))
                /\ MatchesBlocked(content) =>
                     /\ single.score = 100
                     /\ single.passed = FALSE
                     /\ result.passed = FALSE

\* A blocked item the classifier scores 0: the batch returns score 0 for it
C15_Witness ==
    /\ Batched
    /\ claude_client
    /\ batch_request.contents = << <<"Kill", "someone">> >>
    /\ batch_request.replies[1].kind = "json"
    /\ batch_request.replies[1].score = 0
    /\ batch_response.results[1].score = 0
    /\ batch_response.results[1].passed = FALSE
    /\ llm_calls = 1

-----------------------------------------------------------------------------
(* Interleaved store_memory and clear_memories calls *)

\* Every live record is a member of its conversation's index
IndexCoversLiveRecords ==
    \A id \in DOMAIN memory : id \in IndexMembers(memory_index, id[1])

\* This step is the return of a clear_memories call of task t
ClearReturns(t) ==
    /\ in_flight[t].op = "clear"
    /\ in_flight[t].pc = "delete_index"
    /\ in_flight'[t].pc = "idle"

\* What C16 says of a step: when all calls have returned after it, the index
\* covers the live records; when it is the return of a clear_memories, none
\* of the records that call read from the index is live
C16_Step ==
    /\ AllReturned' => IndexCoversLiveRecords'
    /\ \A t \in Tasks :
        ClearReturns(t) => in_flight'[t].ids \cap DOMAIN memory' = {}

C16_WitnessOrphan ==
    /\ interleaved
    /\ AllReturned
    /\ ~IndexCoversLiveRecords

=============================================================================
